---- MODULE Spec2Model ----
(***************************************************************************)
(* Model of the API gateway client of the Voizmatic dashboard:             *)
(* src/src/app/services/api.ts (token store, parseApiError, the four       *)
(* transport wrappers apiCall / apiUpload / apiDownload / apiDownloadBlob) *)
(* together with the 401 redirect timer they schedule.                     *)
(*                                                                         *)
(* One transport call is followed from its start, through the two awaits   *)
(* of the code (fetch, then response.json() / response.blob()), to the     *)
(* settlement of its promise.  The response headers arrive with the fetch  *)
(* resolution, the body arrives when it is read.                           *)
(***************************************************************************)
EXTENDS Integers, Sequences, FiniteSets, TLC

(***************************************************************************)
(* Bounds of the model                                                     *)
(***************************************************************************)
\* longest `detail` array a response body carries
MaxDetail == 2
\* redirect timers that may be pending at once
MaxTimers == 2

(***************************************************************************)
(* Optional values: undefined / null is None, a present value v is Some(v) *)
(***************************************************************************)
None == <<>>
Some(v) == <<v>>
IsSome(o) == o # <<>>
Get(o) == o[1]

(***************************************************************************)
(* JSON values as response.json() delivers them.                           *)
(***************************************************************************)
JNull == [kind |-> "null"]
JNumber(n) == [kind |-> "number", n |-> n]
JString(s) == [kind |-> "string", text |-> s]
JArray(items) == [kind |-> "array", items |-> items]
\* an object: props maps the names of its properties to their values
JObject(props) == [kind |-> "object", props |-> props]
\* the properties of `opts` that are present, as the props of an object
Present(opts) == [name \in {m \in DOMAIN opts : IsSome(opts[m])} |-> Get(opts[name])]
\* `{}`
EmptyObject == JObject([name \in {} |-> JNull])

\* value.name on a value that is neither null nor undefined: None when the
\* property is undefined
Prop(j, name) ==
  IF j.kind = "object" /\ name \in DOMAIN j.props THEN Some(j.props[name]) ELSE None

\* JavaScript truthiness of a JSON value (`if (errorData)`)
Truthy(j) ==
  CASE j.kind = "null" -> FALSE
    [] j.kind = "number" -> j.n # 0
    [] j.kind = "string" -> j.text # ""
    [] OTHER -> TRUE

\* `typeof v === 'string'` on an optional value
IsString(p) == IsSome(p) /\ Get(p).kind = "string"
\* `Array.isArray(v)` on an optional value
IsArray(p) == IsSome(p) /\ Get(p).kind = "array"

(***************************************************************************)
(* Thrown values and the typed error                                       *)
(***************************************************************************)
\* a JavaScript exception object: its class name and its message
Exception(name, message) == [name |-> name, message |-> message]
\* a thrown value that is no Error object (`throw "text"`)
NonErrorValue == Exception("NonError", "")
\* what response.json() throws on an empty body
JsonSyntaxError == Exception("SyntaxError", "Unexpected end of JSON input")
\* what response.json() throws on a body that is no JSON text
JsonTokenError == Exception("SyntaxError", "Unexpected token '<', \"<html>\" is not valid JSON")
\* what fetch / a body read rejects with when the transport fails
FetchTypeError == Exception("TypeError", "Failed to fetch")
\* what fetch rejects with when the request is aborted
FetchAbortError == Exception("AbortError", "The user aborted a request.")
\* what reading a property of undefined / null throws
PropertyTypeError == Exception("TypeError", "Cannot read properties of undefined (reading 'slice')")

\* `error instanceof Error`
InstanceOfError(e) == e.name # "NonError"
\* `error instanceof TypeError`
InstanceOfTypeError(e) == e.name = "TypeError"
\* `error instanceof VoizmaticApiError`
InstanceOfVoizmaticApiError(e) == e.name = "VoizmaticApiError"

\* the ApiError literal handed to the constructor
ApiError(message, status, statusText, validationErrors, originalError) ==
  [message |-> message, status |-> status, statusText |-> statusText,
   validationErrors |-> validationErrors, originalError |-> originalError]

\* new VoizmaticApiError(apiError): copies message, status, statusText and
\* validationErrors; the constructor does not copy originalError
VoizmaticApiError(apiError) ==
  [name |-> "VoizmaticApiError",
   message |-> apiError.message,
   status |-> apiError.status,
   statusText |-> apiError.statusText,
   validationErrors |-> apiError.validationErrors]

\* the result of evaluating code that may throw
Return(v) == [thrown |-> FALSE, value |-> v]
Throw(e) == [thrown |-> TRUE, exc |-> e]

(***************************************************************************)
(* parseApiError                                                           *)
(***************************************************************************)
RECURSIVE JoinWith(_, _)
\* Array.prototype.join on an array of strings
JoinWith(strs, sep) ==
  IF Len(strs) = 0 THEN ""
  ELSE IF Len(strs) = 1 THEN strs[1]
  ELSE strs[1] \o sep \o JoinWith(Tail(strs), sep)

\* String(segment), as join applies it to a location segment
SegText(seg) ==
  CASE seg.kind = "string" -> seg.text
    [] seg.kind = "number" -> ToString(seg.n)
    [] OTHER -> ""

\* Array.prototype.slice(1)
Slice1(items) == IF Len(items) = 0 THEN <<>> ELSE Tail(items)

\* a field name that keeps the first segment of the location
FieldNameKeepsFirst(entry) ==
  LET rest == Get(Prop(entry, "loc")).items
      joined == JoinWith([i \in 1..Len(rest) |-> SegText(rest[i])], ".")
  IN IF joined = "" THEN "field" ELSE joined

\* err.loc.slice(1).join('.') || 'field'
FieldName(entry) ==
  LET rest == Slice1(Get(Prop(entry, "loc")).items)
      joined == JoinWith([i \in 1..Len(rest) |-> SegText(rest[i])], ".")
  IN IF joined = "" THEN "field" ELSE joined

\* `${err.msg}`
MsgText(entry) ==
  LET msg == Prop(entry, "msg")
  IN CASE ~IsSome(msg) -> "undefined"
       [] Get(msg).kind = "string" -> Get(msg).text
       [] Get(msg).kind = "number" -> ToString(Get(msg).n)
       [] OTHER -> Get(msg).kind

\* `${field}: ${err.msg}`
FormatEntry(entry) == FieldName(entry) \o ": " \o MsgText(entry)

\* err.loc.slice(1).join('.') throws a TypeError unless err is an object
\* whose loc is an array
EntryThrows(entry) ==
  \/ entry.kind = "null"
  \/ ~IsArray(Prop(entry, "loc"))

SessionExpiredOrInvalidMessage == "Session expired or invalid. Please login again."
BadRequestMessage == "Bad request. Please check your input."
ForbiddenMessage == "Access forbidden. You do not have permission to perform this action."
NotFoundMessage == "Resource not found."
ValidationFailedMessage == "Validation failed. Please check your input."
TooManyRequestsMessage == "Too many requests. Please try again later."
InternalServerErrorMessage == "Internal server error. Please try again later."
BadGatewayMessage == "Bad gateway. The server is temporarily unavailable."
ServiceUnavailableMessage == "Service unavailable. Please try again later."
GatewayTimeoutMessage == "Gateway timeout. The request took too long."

\* let message = `Request failed with status ${status}`
DefaultMessage(status) == "Request failed with status " \o ToString(status)

\* the switch (status) of parseApiError, applied to the message computed so far
StatusMessage(status, message, validationErrors) ==
  CASE status = 400 -> IF message # "" THEN message ELSE BadRequestMessage
    [] status = 401 -> SessionExpiredOrInvalidMessage
    [] status = 403 -> ForbiddenMessage
    [] status = 404 -> NotFoundMessage
    [] status = 422 -> IF ~IsSome(validationErrors) THEN ValidationFailedMessage ELSE message
    [] status = 429 -> TooManyRequestsMessage
    [] status = 500 -> InternalServerErrorMessage
    [] status = 502 -> BadGatewayMessage
    [] status = 503 -> ServiceUnavailableMessage
    [] status = 504 -> GatewayTimeoutMessage
    [] OTHER -> message

\* a body message that reads the `message` property before `detail`
BodyMessagePrefersMessage(status, errorData) ==
  LET data == Get(errorData)
      detail == Prop(data, "detail")
      items == Get(detail).items
  IN IF ~IsSome(errorData) \/ ~Truthy(data) THEN DefaultMessage(status)
     ELSE IF IsArray(detail)
       THEN JoinWith([i \in 1..Len(items) |-> FormatEntry(items[i])], "; ")
     ELSE IF IsString(Prop(data, "message")) THEN Get(Prop(data, "message")).text
     ELSE IF IsString(detail) THEN Get(detail).text
     ELSE DefaultMessage(status)

\* the message taken from the error body (`if (errorData) { ... }`)
BodyMessage(status, errorData) ==
  LET data == Get(errorData)
      detail == Prop(data, "detail")
      items == Get(detail).items
  IN IF ~IsSome(errorData) \/ ~Truthy(data) THEN DefaultMessage(status)
     ELSE IF IsArray(detail)
       THEN JoinWith([i \in 1..Len(items) |-> FormatEntry(items[i])], "; ")
     ELSE IF IsString(detail) THEN Get(detail).text
     ELSE IF IsString(Prop(data, "message")) THEN Get(Prop(data, "message")).text
     ELSE DefaultMessage(status)

\* validationErrors = errorData.detail when it is an array
BodyValidationErrors(errorData) ==
  IF IsSome(errorData) /\ Truthy(Get(errorData)) /\ IsArray(Prop(Get(errorData), "detail"))
  THEN Some(Get(Prop(Get(errorData), "detail")).items)
  ELSE None

\* parseApiError(response, errorData): the ApiError it returns, or the
\* TypeError the map over a malformed detail array throws
parseApiError(response, errorData) ==
  LET validationErrors == BodyValidationErrors(errorData)
  IN IF IsSome(validationErrors)
        /\ \E i \in 1..Len(Get(validationErrors)) : EntryThrows(Get(validationErrors)[i])
     THEN Throw(PropertyTypeError)
     ELSE Return(ApiError(
            StatusMessage(response.status,
                          BodyMessage(response.status, errorData),
                          validationErrors),
            Some(response.status),
            Some(response.statusText),
            validationErrors,
            None))

(***************************************************************************)
(* State: localStorage, the clock, the AuthContext state and the transport *)
(* call in flight                                                          *)
(***************************************************************************)
VARIABLES
  token,          \* localStorage[TOKEN_KEY]: None when the key is absent
  expiry,         \* localStorage[TOKEN_EXPIRY_KEY]: None when the key is absent
  currentUser,    \* localStorage['currentUser']: None when the key is absent
  now,            \* the clock `new Date()` reads
  user,           \* AuthContext state `user`: None is null
  pc,             \* position of the call: idle, fetching, errorBody, successBody, settled
  variant,        \* which wrapper runs: apiCall, apiUpload, apiDownload, apiDownloadBlob
  caller,         \* who awaits the call: a component, or checkExistingSession
  requiresAuth,   \* the requiresAuth argument of the call in flight, FALSE when none is
  authorization,  \* the Authorization header of the request, None when not sent
  requests,       \* how often the call in flight has called fetch
  failure,        \* what fetch rejected with, None unless it rejected
  response,       \* the Response fetch resolved with (status line and headers), None before
  bodyUsed,       \* response.bodyUsed: json() or blob() has been called on the response
  content,        \* what the body read found on the wire, None while unread
  saved,          \* apiDownload clicked its temporary anchor (browser "save as")
  outcome,        \* the promise the wrapper returned: pending, fulfilled or rejected
  timers,         \* pending `setTimeout(() => window.location.href = '/', 100)` callbacks
  stale           \* the Authorization header of a protected call sent earlier and
                  \* still unanswered while the page went on; None when there is none

vars == <<token, expiry, currentUser, now, user, pc, variant, caller, requiresAuth,
          authorization, requests, failure, response, bodyUsed, content, saved, outcome,
          timers, stale>>

Variants == {"apiCall", "apiUpload", "apiDownload", "apiDownloadBlob"}

\* tokenManager.getToken
getToken == token

\* a clearToken that removes the token key only
clearTokenKeepsExpiry == [token |-> None, expiry |-> expiry]

\* tokenManager.clearToken, as the pair of values it leaves in the store
clearToken == [token |-> None, expiry |-> None]

\* the stored expiry is a text `new Date` cannot read (Invalid Date)
InvalidDate == -1

\* String(value), as localStorage.setItem stores a value
StoredText(p) ==
  CASE ~IsSome(p) -> "undefined"
    [] Get(p).kind = "string" -> Get(p).text
    [] Get(p).kind = "number" -> ToString(Get(p).n)
    [] Get(p).kind = "null" -> "null"
    [] OTHER -> "[object Object]"

\* the ISO text of the instant t (instants are numbered in seconds)
IsoText(t) == "2026-01-01T00:00:0" \o ToString(t)

\* the instant `new Date` reads from the stored text of an expires_at value:
\* an ISO text gives its instant, every other text of the model gives no date
DateOf(p) ==
  IF IsSome(p) /\ Get(p).kind = "string" /\ \E t \in 0..9 : Get(p).text = IsoText(t)
  THEN CHOOSE t \in 0..9 : Get(p).text = IsoText(t)
  ELSE InvalidDate

\* a setToken that writes the token key only
setTokenKeepsExpiry(accessToken, expiresAt) ==
  [token |-> Some(StoredText(accessToken)), expiry |-> expiry]

\* tokenManager.setToken, as the pair of values it leaves in the store
setToken(accessToken, expiresAt) ==
  [token |-> Some(StoredText(accessToken)), expiry |-> Some(DateOf(expiresAt))]

\* tokenManager.isTokenValid on a store and a clock reading
isTokenValid(tok, exp, t) ==
  IF ~IsSome(tok) \/ Get(tok) = "" \/ ~IsSome(exp) THEN FALSE
  ELSE Get(exp) # InvalidDate /\ Get(exp) > t

(***************************************************************************)
(* Inputs: what the network can deliver                                    *)
(***************************************************************************)
Statuses == {200, 204, 304, 400, 401, 403, 404, 409, 422, 429, 500, 501, 502, 503, 504}
StatusTexts == {"", "Reason"}
\* the content-type header: absent, or one of these values
ContentTypes == {None, Some("text/html"), Some("application/json; charset=utf-8")}
Responses == [status : Statuses, statusText : StatusTexts, contentType : ContentTypes]

\* contentType && contentType.includes('application/json')
IncludesApplicationJson(contentType) ==
  IsSome(contentType)
  /\ Get(contentType) \in {"application/json", "application/json; charset=utf-8"}

\* response.ok
ResponseOk(resp) == resp.status >= 200 /\ resp.status <= 299

\* a FastAPI validation entry {loc, msg, type}
JEntry(loc, msg, type) ==
  JObject([loc |-> JArray(loc), msg |-> JString(msg), type |-> JString(type)])

\* elements a `detail` array may hold: validation entries, and elements of
\* other shapes
WellFormedEntries ==
  { JEntry(<<JString("body"), JString("phone")>>, "required", "missing"),
    JEntry(<<JString("body")>>, "invalid", "type_error"),
    JObject([loc |-> JArray(<<JString("query"), JString("items"), JNumber(0)>>)]) }
MalformedEntries ==
  { JNull,
    JObject([msg |-> JString("required"), type |-> JString("missing")]),
    JObject([loc |-> JString("body"), msg |-> JString("required")]) }
Entries == WellFormedEntries \cup MalformedEntries

\* all sequences over S of length at most n
SeqUpTo(S, n) == UNION { [1..k -> S] : k \in 0..n }

Details ==
  {None, Some(JNull), Some(JNumber(7)), Some(JString("")), Some(JString("Custom detail")),
   Some(JString("Upstream Network unreachable"))}
  \cup { Some(JArray(items)) : items \in SeqUpTo(Entries, MaxDetail) }
Messages == {None, Some(JNumber(7)), Some(JString("Custom message"))}

\* a profile body {user: {id, email}, credits}
JProfile(email) ==
  JObject([user |-> JObject([id |-> JString("u1"), email |-> JString(email)]),
           credits |-> JNumber(5)])

JsonValues ==
  {JNull, JNumber(0), JNumber(7), JString("text"), JProfile("ana@example.com"),
   JObject([user |-> JObject([id |-> JString("u1")])])}
  \cup { JObject(Present([detail |-> d, message |-> m])) : d \in Details, m \in Messages }

\* what a body read finds: the connection failed, no body, a body that is
\* no JSON text, or a JSON text
Contents ==
  {[kind |-> "failed"], [kind |-> "empty"], [kind |-> "text"]}
  \cup { [kind |-> "json", value |-> j] : j \in JsonValues }

\* what fetch can reject with
FetchErrors == {FetchTypeError, FetchAbortError, NonErrorValue}

\* response.json()
ResponseJson(c) ==
  CASE c.kind = "failed" -> Throw(FetchTypeError)
    [] c.kind = "json" -> Return(c.value)
    [] c.kind = "empty" -> Throw(JsonSyntaxError)
    [] OTHER -> Throw(JsonTokenError)

Blob == [kind |-> "blob"]
Undefined == [kind |-> "undefined"]

\* response.blob()
ResponseBlob(c) ==
  IF c.kind = "failed" THEN Throw(FetchTypeError) ELSE Return(Blob)

(***************************************************************************)
(* The transport wrappers                                                  *)
(***************************************************************************)
Pending == [state |-> "pending"]
Fulfilled(v) == [state |-> "fulfilled", value |-> v]
Rejected(e) == [state |-> "rejected", reason |-> e]

SessionExpiredMessage == "Session expired. Please login again."

\* the message of the `error instanceof TypeError` branch of each wrapper
NetworkMessage(v) ==
  CASE v = "apiCall" -> "Network error. Please check your internet connection."
    [] v = "apiUpload" -> "Network error during upload. Please check your internet connection."
    [] OTHER -> "Network error during download. Please check your internet connection."

\* the message of the last branch of each wrapper's catch block
UnexpectedMessage(v) ==
  CASE v = "apiCall" -> "An unexpected error occurred"
    [] v = "apiUpload" -> "Upload failed"
    [] OTHER -> "Download failed"

\* a catch block whose last branch rethrows what it caught
CatchBlockRethrows(v, error) ==
  IF InstanceOfVoizmaticApiError(error) THEN error
  ELSE IF InstanceOfTypeError(error)
    THEN VoizmaticApiError(ApiError(NetworkMessage(v), None, None, None, Some(error)))
  ELSE IF InstanceOfError(error)
    THEN VoizmaticApiError(ApiError(error.message, None, None, None, Some(error)))
  ELSE error

\* the catch block of a wrapper: the value its promise rejects with
CatchBlock(v, error) ==
  IF InstanceOfVoizmaticApiError(error) THEN error
  ELSE IF InstanceOfTypeError(error)
    THEN VoizmaticApiError(ApiError(NetworkMessage(v), None, None, None, Some(error)))
  ELSE IF InstanceOfError(error)
    THEN VoizmaticApiError(ApiError(error.message, None, None, None, Some(error)))
  ELSE VoizmaticApiError(ApiError(UnexpectedMessage(v), None, None, None, Some(error)))

\* a 401 error built by parseApiError instead of the fixed literal
UnauthorizedFromParser(resp) ==
  VoizmaticApiError(parseApiError(resp, None).value)

\* the error thrown on status 401
Unauthorized(resp) ==
  VoizmaticApiError(ApiError(SessionExpiredMessage, Some(401), Some(resp.statusText), None, None))

\* a 401 path that schedules no redirect
setTimeoutRedirectDropped(pending) == pending

\* setTimeout(() => { window.location.href = '/' }, 100): one more pending timer
setTimeoutRedirect(pending) == pending + 1

\* the wrapper awaits a body read of a non-2xx response
ReadsErrorBody(resp) == IncludesApplicationJson(resp.contentType)

\* an apiCall that reads the body of every 2xx response
ReadsSuccessBodyAlways(v, resp) == TRUE

\* the wrapper awaits a body read of a 2xx response
ReadsSuccessBody(v, resp) ==
  v = "apiCall" => IncludesApplicationJson(resp.contentType)

\* an error path without the inner try/catch around the body read
ErrorOutcomeNoInnerCatch(v, resp, read) ==
  LET decoded == ResponseJson(Get(read))
      errorData == IF IsSome(read) THEN Some(decoded.value) ELSE None
      apiError == parseApiError(resp, errorData)
  IN IF IsSome(read) /\ decoded.thrown THEN Rejected(CatchBlock(v, decoded.exc))
     ELSE IF apiError.thrown THEN Rejected(CatchBlock(v, apiError.exc))
     ELSE Rejected(CatchBlock(v, VoizmaticApiError(apiError.value)))

\* `if (!response.ok) { ... }` once the body, if read, has settled: the inner
\* try/catch leaves errorData undefined when json() throws
ErrorOutcome(v, resp, read) ==
  LET decoded == ResponseJson(Get(read))
      errorData == IF IsSome(read) /\ ~decoded.thrown THEN Some(decoded.value) ELSE None
      apiError == parseApiError(resp, errorData)
  IN IF apiError.thrown
     THEN Rejected(CatchBlock(v, apiError.exc))
     ELSE Rejected(CatchBlock(v, VoizmaticApiError(apiError.value)))

\* the 2xx path of a wrapper once the body, if read, has settled
SuccessOutcome(v, read) ==
  LET decoded == IF v \in {"apiCall", "apiUpload"}
                 THEN ResponseJson(Get(read)) ELSE ResponseBlob(Get(read))
  IN IF ~IsSome(read) THEN Fulfilled(EmptyObject)
     ELSE IF decoded.thrown THEN Rejected(CatchBlock(v, decoded.exc))
     ELSE IF v = "apiDownload" THEN Fulfilled(Undefined)
     ELSE Fulfilled(decoded.value)

(***************************************************************************)
(* AuthContext: checkExistingSession                                       *)
(***************************************************************************)
\* email.split('@')[0] on the addresses of the model
EmailPrefix(email) == IF email = "ana@example.com" THEN "ana" ELSE email

\* profileToUser: reading profile.user.id of an undefined or null user, or
\* calling split on an email that is no string, throws a TypeError
profileToUser(profile) ==
  LET u == Prop(profile, "user")
      email == Prop(Get(u), "email")
  IN IF profile.kind = "null" \/ ~IsSome(u) \/ Get(u).kind = "null" \/ ~IsString(email)
     THEN Throw(PropertyTypeError)
     ELSE Return([id |-> Prop(Get(u), "id"),
                  email |-> Get(email).text,
                  credits |-> Prop(profile, "credits"),
                  username |-> EmailPrefix(Get(email).text),
                  role |-> "user"])

\* a sign-in that stores the token and leaves the expiry key as it was
StoreSessionTokenOnly(payload) ==
  IF payload.kind = "null" THEN Throw(PropertyTypeError)
  ELSE Return([token |-> Some(StoredText(Prop(payload, "access_token"))),
               expiry |-> expiry])

\* api.auth.login / api.auth.register after their apiCall resolved with
\* `payload`: reading a property of null throws, anything else is stored
StoreSession(payload) ==
  IF payload.kind = "null" THEN Throw(PropertyTypeError)
  ELSE Return(setToken(Prop(payload, "access_token"), Prop(payload, "expires_at")))

\* a logout that clears the local session only when the call succeeded
LogoutOnlyOnSuccess(out, st) ==
  IF out.state = "fulfilled"
  THEN [st EXCEPT !.user = None,
                  !.token = clearToken.token,
                  !.expiry = clearToken.expiry,
                  !.currentUser = None]
  ELSE st

\* AuthContext.logout after the call settled: api.auth.logout clears the
\* token when the call resolved, the catch only logs, and the finally block
\* sets the user to null, clears the token and removes currentUser
LogoutFinally(out, st) ==
  [st EXCEPT !.user = None,
             !.token = clearToken.token,
             !.expiry = clearToken.expiry,
             !.currentUser = None]

\* what the awaiting caller does when the call settles, on the token store
\* and the AuthContext state `st`: a component changes neither;
\* checkExistingSession stores the user, or clears the session in its catch;
\* api.auth.login and api.auth.register store the session of a resolved
\* call; the profile fetch of login, register and refreshProfile stores the
\* user when it succeeds; AuthContext.logout clears the local session
\* whatever the call gave
Continuation(c, out, st) ==
  CASE c = "checkExistingSession" ->
         IF out.state = "fulfilled" /\ ~profileToUser(out.value).thrown
         THEN [st EXCEPT !.user = Some(profileToUser(out.value).value),
                         !.currentUser = Some(profileToUser(out.value).value)]
         ELSE [st EXCEPT !.token = clearToken.token,
                         !.expiry = clearToken.expiry,
                         !.currentUser = None]
    [] c \in {"login", "register"} ->
         IF out.state = "fulfilled" /\ ~StoreSession(out.value).thrown
         THEN [st EXCEPT !.token = StoreSession(out.value).value.token,
                         !.expiry = StoreSession(out.value).value.expiry]
         ELSE st
    [] c \in {"signInProfile", "refreshProfile"} ->
         IF out.state = "fulfilled" /\ ~profileToUser(out.value).thrown
         THEN [st EXCEPT !.user = Some(profileToUser(out.value).value),
                         !.currentUser = Some(profileToUser(out.value).value)]
         ELSE st
    [] c = "logout" -> LogoutFinally(out, st)
    [] OTHER -> st

\* a wrapper that calls fetch a second time
fetchTwice(n) == n + 2

\* `await fetch(url, {...})`: the one fetch call of a wrapper, on the count
\* of the requests made so far
fetch(n) == n + 1

\* a page load that restores no cached user when the token is not valid
PageLoadNoRestore(tok, exp, cu, t) ==
  IF isTokenValid(tok, exp, t)
  THEN [user |-> None, pc |-> "fetching", caller |-> "checkExistingSession",
        requiresAuth |-> TRUE, authorization |-> Some("Bearer " \o Get(tok)),
        requests |-> fetch(0)]
  ELSE [user |-> None, pc |-> "idle", caller |-> "component",
        requiresAuth |-> FALSE, authorization |-> None, requests |-> 0]

\* a page load that restores the cached user without asking for a token
PageLoadRestoresWithoutToken(tok, exp, cu, t) ==
  IF isTokenValid(tok, exp, t)
  THEN [user |-> None, pc |-> "fetching", caller |-> "checkExistingSession",
        requiresAuth |-> TRUE, authorization |-> Some("Bearer " \o Get(tok)),
        requests |-> fetch(0)]
  ELSE [user |-> cu, pc |-> "idle", caller |-> "component",
        requiresAuth |-> FALSE, authorization |-> None, requests |-> 0]

\* the page after its load and the synchronous part of checkExistingSession,
\* from what localStorage holds and the clock shows
PageLoad(tok, exp, cu, t) ==
  IF isTokenValid(tok, exp, t)
  THEN [user |-> None, pc |-> "fetching", caller |-> "checkExistingSession",
        requiresAuth |-> TRUE, authorization |-> Some("Bearer " \o Get(tok)),
        requests |-> fetch(0)]
  ELSE [user |-> IF IsSome(cu) /\ IsSome(tok) /\ Get(tok) # "" THEN cu ELSE None,
        pc |-> "idle", caller |-> "component",
        requiresAuth |-> FALSE, authorization |-> None, requests |-> 0]

(***************************************************************************)
(* Initial state and steps                                                 *)
(***************************************************************************)
\* a clock reading after which the model stops the clock
MaxClock == 3
Expiries == {0, 2}
TestUser == profileToUser(JProfile("ana@example.com")).value

\* the page has loaded; localStorage holds what an earlier session left
Init ==
  /\ now = 1
  /\ \E t \in {None, Some("token-1")}, e \in Expiries :
       /\ token = t
       /\ expiry = IF IsSome(t) THEN Some(e) ELSE None
  /\ currentUser \in {None, Some(TestUser)}
  /\ LET page == PageLoad(token, expiry, currentUser, now)
     IN /\ user = page.user
        /\ pc = page.pc
        /\ caller = page.caller
        /\ requiresAuth = page.requiresAuth
        /\ authorization = page.authorization
        /\ requests = page.requests
  /\ failure = None
  /\ variant = "apiCall"
  /\ response = None
  /\ bodyUsed = FALSE
  /\ content = None
  /\ saved = FALSE
  /\ outcome = Pending
  /\ timers = 0
  /\ stale = None

\* api.auth.login or api.auth.register has just stored the session: in the
\* same turn of the event loop AuthContext goes on to fetch the profile
SignedIn ==
  /\ pc = "settled"
  /\ caller \in {"login", "register"}
  /\ outcome.state = "fulfilled"
  /\ ~StoreSession(outcome.value).thrown

\* no call is in flight and no continuation is due
Quiet == pc \in {"idle", "settled"} /\ ~SignedIn

\* a wrapper that attaches the stored token to every request
InvokeAlwaysBearer(v, c, auth) ==
  /\ pc' = "fetching"
  /\ variant' = v
  /\ caller' = c
  /\ requiresAuth' = auth
  /\ authorization' = IF IsSome(getToken) /\ Get(getToken) # ""
                      THEN Some("Bearer " \o Get(getToken)) ELSE None
  /\ requests' = fetch(0)
  /\ failure' = None
  /\ response' = None
  /\ bodyUsed' = FALSE
  /\ content' = None
  /\ saved' = FALSE
  /\ outcome' = Pending
  /\ UNCHANGED <<token, expiry, currentUser, now, user, timers, stale>>

\* wrapper v is called on behalf of caller c: it builds its headers and
\* calls fetch
Invoke(v, c, auth) ==
  /\ pc' = "fetching"
  /\ variant' = v
  /\ caller' = c
  /\ requiresAuth' = auth
  /\ authorization' = IF auth /\ IsSome(getToken) /\ Get(getToken) # ""
                      THEN Some("Bearer " \o Get(getToken)) ELSE None
  /\ requests' = fetch(0)
  /\ failure' = None
  /\ response' = None
  /\ bodyUsed' = FALSE
  /\ content' = None
  /\ saved' = FALSE
  /\ outcome' = Pending
  /\ UNCHANGED <<token, expiry, currentUser, now, user, timers, stale>>

\* a component calls a wrapper
Start(v, auth) ==
  /\ Quiet
  /\ timers < MaxTimers
  /\ Invoke(v, "component", auth)

\* the login screen calls AuthContext.login or AuthContext.register, the
\* dashboard AuthContext.logout: each calls its endpoint through apiCall,
\* logout alone with requiresAuth
StartAuth(op) ==
  /\ Quiet
  /\ timers < MaxTimers
  /\ IF op = "logout" THEN IsSome(user) ELSE ~IsSome(user)
  /\ Invoke("apiCall", op, op = "logout")

\* AuthContext.login / register, the session stored, fetch the profile
SignInFetchesProfile ==
  /\ SignedIn
  /\ Invoke("apiCall", "signInProfile", TRUE)

\* the dashboard calls refreshProfile, which fetches the profile when the
\* token is valid
RefreshProfile ==
  /\ Quiet
  /\ timers < MaxTimers
  /\ IsSome(user)
  /\ isTokenValid(token, expiry, now)
  /\ Invoke("apiCall", "refreshProfile", TRUE)

\* the promise of the wrapper settles with `out`, the store holding tok and
\* exp, and the awaiting caller continues in the same task
Settle(out, tok, exp) ==
  LET st == Continuation(caller, out, [token |-> tok, expiry |-> exp,
                                       user |-> user, currentUser |-> currentUser])
  IN /\ pc' = "settled"
     /\ requiresAuth' = FALSE
     /\ outcome' = out
     /\ token' = st.token
     /\ expiry' = st.expiry
     /\ user' = st.user
     /\ currentUser' = st.currentUser

\* a catch block that clears the session when fetch rejects
FetchRejectsClearsToken(error) ==
  /\ pc = "fetching"
  /\ failure' = Some(error)
  /\ Settle(Rejected(CatchBlock(variant, error)), clearToken.token, clearToken.expiry)
  /\ UNCHANGED <<now, stale, variant, caller, authorization, requests, response,
                 bodyUsed, content, saved, timers>>

\* fetch rejects: control enters the catch block
FetchRejects(error) ==
  /\ pc = "fetching"
  /\ failure' = Some(error)
  /\ Settle(Rejected(CatchBlock(variant, error)), token, expiry)
  /\ UNCHANGED <<now, stale, variant, caller, authorization, requests, response,
                 bodyUsed, content, saved, timers>>

\* fetch resolves with a response: the wrapper runs up to its next await or
\* to the settlement of its promise
FetchResolves(resp) ==
  /\ pc = "fetching"
  /\ response' = Some(resp)
  /\ IF resp.status = 401
     THEN /\ timers' = setTimeoutRedirect(timers)
          /\ bodyUsed' = FALSE
          /\ Settle(Rejected(CatchBlock(variant, Unauthorized(resp))),
                    clearToken.token, clearToken.expiry)
     ELSE IF ~ResponseOk(resp)
     THEN /\ UNCHANGED timers
          /\ IF ReadsErrorBody(resp)
             THEN /\ pc' = "errorBody" /\ bodyUsed' = TRUE /\ outcome' = Pending
                  /\ UNCHANGED <<token, expiry, user, currentUser, requiresAuth>>
             ELSE /\ bodyUsed' = FALSE
                  /\ Settle(ErrorOutcome(variant, resp, None), token, expiry)
     ELSE /\ UNCHANGED timers
          /\ IF ReadsSuccessBody(variant, resp)
             THEN /\ pc' = "successBody" /\ bodyUsed' = TRUE /\ outcome' = Pending
                  /\ UNCHANGED <<token, expiry, user, currentUser, requiresAuth>>
             ELSE /\ bodyUsed' = FALSE
                  /\ Settle(SuccessOutcome(variant, None), token, expiry)
  /\ UNCHANGED <<now, stale, variant, caller, authorization, requests, failure, content, saved>>

\* the body read of a non-2xx response settles
ErrorBodySettles(c) ==
  /\ pc = "errorBody"
  /\ content' = Some(c)
  /\ Settle(ErrorOutcome(variant, Get(response), Some(c)), token, expiry)
  /\ UNCHANGED <<now, stale, variant, caller, authorization, requests, failure,
                 response, bodyUsed, saved, timers>>

\* the body read of a 2xx response settles
SuccessBodySettles(c) ==
  /\ pc = "successBody"
  /\ content' = Some(c)
  /\ Settle(SuccessOutcome(variant, Some(c)), token, expiry)
  /\ saved' = (variant = "apiDownload" /\ SuccessOutcome(variant, Some(c)).state = "fulfilled")
  /\ UNCHANGED <<now, stale, variant, caller, authorization, requests, failure,
                 response, bodyUsed, timers>>

\* a redirect timer fires: window.location.href = '/' reloads the page, which
\* drops every pending timer, the call in flight and the AuthContext state;
\* localStorage persists and the new page runs checkExistingSession
RedirectFires ==
  /\ timers > 0
  /\ ~SignedIn
  /\ timers' = 0
  /\ LET page == PageLoad(token, expiry, currentUser, now)
     IN /\ user' = page.user
        /\ pc' = page.pc
        /\ caller' = page.caller
        /\ requiresAuth' = page.requiresAuth
        /\ authorization' = page.authorization
        /\ requests' = page.requests
  /\ failure' = None
  /\ variant' = "apiCall"
  /\ response' = None
  /\ bodyUsed' = FALSE
  /\ content' = None
  /\ saved' = FALSE
  /\ outcome' = Pending
  /\ stale' = None
  /\ UNCHANGED <<token, expiry, currentUser, now>>

\* time passes
Tick ==
  /\ now < MaxClock
  /\ now' = now + 1
  /\ UNCHANGED <<token, expiry, currentUser, user, pc, variant, caller, requiresAuth,
                 authorization, requests, failure, response, bodyUsed, content, saved,
                 outcome, timers, stale>>

\* the transport wrapper under every response and body of the model
Next ==
  \/ \E v \in Variants, auth \in BOOLEAN : Start(v, auth)
  \/ \E error \in FetchErrors : FetchRejects(error)
  \/ \E resp \in Responses : FetchResolves(resp)
  \/ \E c \in Contents : ErrorBodySettles(c)
  \/ \E c \in Contents : SuccessBodySettles(c)
  \/ RedirectFires

Spec == Init /\ [][Next]_vars

(***************************************************************************)
(* A second specification over a small set of bodies, with the clock and   *)
(* with the fairness the browser gives a pending timer: its callback runs  *)
(***************************************************************************)
CoarseContents ==
  {[kind |-> "failed"], [kind |-> "empty"], [kind |-> "text"],
   [kind |-> "json", value |-> EmptyObject],
   [kind |-> "json", value |-> JProfile("ana@example.com")],
   [kind |-> "json", value |-> JObject([detail |-> JString("Custom detail")])],
   [kind |-> "json", value |-> JObject([detail |-> JString("Upstream Network unreachable")])],
   [kind |-> "json", value |-> JObject([detail |-> JArray(<<
      JEntry(<<JString("body"), JString("phone")>>, "required", "missing")>>)])],
   [kind |-> "json", value |-> JObject([detail |-> JArray(<<
      JEntry(<<JString("body"), JString("network_id")>>, "required", "missing")>>)])],
   [kind |-> "json", value |-> JObject([detail |-> JArray(<<
      JEntry(<<JString("body"), JString("phone")>>, "required", "missing"),
      JEntry(<<JString("body")>>, "invalid", "type_error")>>)])],
   [kind |-> "json", value |-> JObject([detail |-> JArray(<<
      JEntry(<<JString("body"), JString("notes")>>, "line one\nline two", "value_error")>>)])]}

CoarseNext ==
  \/ \E v \in Variants, auth \in BOOLEAN : Start(v, auth)
  \/ \E error \in FetchErrors : FetchRejects(error)
  \/ \E resp \in Responses : FetchResolves(resp)
  \/ \E c \in CoarseContents : ErrorBodySettles(c)
  \/ \E c \in CoarseContents : SuccessBodySettles(c)
  \/ RedirectFires
  \/ Tick

FairSpec == Init /\ [][CoarseNext]_vars /\ WF_vars(RedirectFires)

\* the network settles what the call in flight awaits: fetch, or the body read
NetworkDelivers ==
  \/ \E error \in FetchErrors : FetchRejects(error)
  \/ \E resp \in Responses : FetchResolves(resp)
  \/ \E c \in CoarseContents : ErrorBodySettles(c)
  \/ \E c \in CoarseContents : SuccessBodySettles(c)

\* the same steps when, besides, the network settles every request and body
\* read it was handed
AnsweredSpec ==
  Init /\ [][CoarseNext]_vars /\ WF_vars(RedirectFires) /\ WF_vars(NetworkDelivers)

(***************************************************************************)
(* A third specification: the application with its sign-in, sign-out and   *)
(* profile operations and the clock, over a small set of responses         *)
(***************************************************************************)
\* an AuthResponse body {access_token, token_type, expires_at}
JAuth(accessToken, expiresAt) ==
  JObject([access_token |-> JString(accessToken),
           token_type |-> JString("bearer"),
           expires_at |-> JString(expiresAt)])

SessionResponses ==
  [status : {200, 204, 401, 404, 500}, statusText : {""},
   contentType : {None, Some("application/json; charset=utf-8")}]

SessionContents ==
  {[kind |-> "failed"], [kind |-> "empty"],
   [kind |-> "json", value |-> JNull],
   [kind |-> "json", value |-> JProfile("ana@example.com")],
   [kind |-> "json", value |-> JAuth("token-2", IsoText(2))],
   [kind |-> "json", value |-> JAuth("token-2", "soon")]}

SessionNext ==
  \/ \E v \in Variants, auth \in BOOLEAN : Start(v, auth)
  \/ \E op \in {"login", "register", "logout"} : StartAuth(op)
  \/ SignInFetchesProfile
  \/ RefreshProfile
  \/ \E error \in FetchErrors : FetchRejects(error)
  \/ \E resp \in SessionResponses : FetchResolves(resp)
  \/ \E c \in SessionContents : ErrorBodySettles(c)
  \/ \E c \in SessionContents : SuccessBodySettles(c)
  \/ RedirectFires
  \/ Tick

SessionSpec == Init /\ [][SessionNext]_vars

(***************************************************************************)
(* A fifth specification in which a protected call of a component can stay *)
(* unanswered while the page goes on to other operations: apiCall is       *)
(* asynchronous, and nothing in the page waits for a call in flight before *)
(* it starts a logout or a login                                           *)
(***************************************************************************)
\* the page goes on while a component's protected call awaits fetch: the
\* call stays in flight with the header it was sent with
LeaveInFlight ==
  /\ pc = "fetching" /\ caller = "component" /\ requiresAuth
  /\ stale = None
  /\ stale' = Some(authorization)
  /\ pc' = "idle"
  /\ variant' = "apiCall"
  /\ requiresAuth' = FALSE
  /\ authorization' = None
  /\ requests' = 0
  /\ UNCHANGED <<token, expiry, currentUser, now, user, caller, failure, response,
                 bodyUsed, content, saved, outcome, timers>>

\* the call left in flight is answered with 401: the wrapper clears the token
\* store as it is now and schedules the redirect; the component that made the
\* call does nothing to the session with the rejection
StaleUnauthorized ==
  /\ IsSome(stale)
  /\ ~SignedIn
  /\ token' = clearToken.token
  /\ expiry' = clearToken.expiry
  /\ timers' = setTimeoutRedirect(timers)
  /\ stale' = None
  /\ UNCHANGED <<currentUser, now, user, pc, variant, caller, requiresAuth,
                 authorization, requests, failure, response, bodyUsed, content,
                 saved, outcome>>

\* the call left in flight settles in any other way: with a result, with an
\* HTTP error that is no 401, or with a failure of fetch
StaleAnswered ==
  /\ IsSome(stale)
  /\ ~SignedIn
  /\ stale' = None
  /\ UNCHANGED <<token, expiry, currentUser, now, user, pc, variant, caller,
                 requiresAuth, authorization, requests, failure, response, bodyUsed,
                 content, saved, outcome, timers>>

RaceNext ==
  \/ SessionNext
  \/ LeaveInFlight
  \/ StaleUnauthorized
  \/ StaleAnswered

RaceSpec == Init /\ [][RaceNext]_vars

(***************************************************************************)
(* Properties                                                              *)
(***************************************************************************)
\* the call has settled on a response whose status is in the given set
SettledOn(statuses) ==
  pc = "settled" /\ IsSome(response) /\ Get(response).status \in statuses

NonOk == { st \in Statuses : st < 200 \/ st > 299 }
NonOkNon401 == NonOk \ {401}
Ok == Statuses \ NonOk

\* the JSON value the body read decoded, None when nothing was decoded
Decoded ==
  IF IsSome(content) /\ Get(content).kind = "json" THEN Some(Get(content).value) ELSE None

\* the `detail` of the decoded error body, None when there is none to read
DecodedDetail ==
  IF IsSome(Decoded) /\ Truthy(Get(Decoded)) THEN Prop(Get(Decoded), "detail") ELSE None

\* C1: every settled call delivers a payload or a VoizmaticApiError: a
\* fulfilled promise only on a 2xx response, and otherwise a rejection whose
\* reason is a VoizmaticApiError, whatever fetch or the body read threw.
C1_TypedErrorOnly ==
  pc = "settled" =>
    \/ /\ outcome.state = "fulfilled"
       /\ IsSome(response) /\ ResponseOk(Get(response))
    \/ /\ outcome.state = "rejected"
       /\ InstanceOfVoizmaticApiError(outcome.reason)
       /\ DOMAIN outcome.reason = {"name", "message", "status", "statusText", "validationErrors"}

\* C1 witness: fetch rejected with a value that is no Error object, and the
\* caller received a VoizmaticApiError
C1_Witness ==
  /\ pc = "settled"
  /\ ~IsSome(response)
  /\ outcome.state = "rejected"
  /\ outcome.reason.name = "VoizmaticApiError"
  /\ outcome.reason.message = UnexpectedMessage(variant)

C2Statuses == {400, 401, 403, 404, 422, 429, 500, 502, 503, 504}

\* C2: for every status in {400,401,403,404,422,429,500,502,503,504} and every
\* body, the call fails with a Typed API Error whose status is that code and
\* whose message is non-empty.
C2_StatusAndMessage ==
  SettledOn(C2Statuses) =>
    /\ outcome.state = "rejected"
    /\ InstanceOfVoizmaticApiError(outcome.reason)
    /\ outcome.reason.status = Some(Get(response).status)
    /\ outcome.reason.message # ""

\* C3: on status 401 every variant leaves the token store empty and rejects
\* with the status-401 Typed API Error carrying the fixed session-expired
\* message and no validationErrors, whatever the content type; the body of
\* the response is never read.
C3_Unauthorized ==
  SettledOn({401}) =>
    /\ token = None /\ expiry = None
    /\ outcome = Rejected([name |-> "VoizmaticApiError",
                           message |-> "Session expired. Please login again.",
                           status |-> Some(401),
                           statusText |-> Some(Get(response).statusText),
                           validationErrors |-> None])
    /\ ~bodyUsed
    /\ content = None

\* C3 witness: a 401 with a JSON content type was handled by a download
\* variant that had sent the stored token
C3_Witness ==
  /\ SettledOn({401})
  /\ variant = "apiDownloadBlob"
  /\ IncludesApplicationJson(Get(response).contentType)
  /\ IsSome(authorization)

\* the step in which a call settles on a 401 response
Handles401 ==
  /\ pc = "fetching" /\ pc' = "settled"
  /\ IsSome(response') /\ Get(response').status = 401

\* the application is logged out: a freshly loaded page with no user, no
\* call in flight and no session token
LoggedOut ==
  timers = 0 /\ pc = "idle" /\ user = None /\ token = None /\ expiry = None

\* C4: in the step that delivers the 401 error the token store is already
\* empty and the redirect is already scheduled; and once a 401 has been
\* handled the redirect fires, whatever the caller does with the error, and
\* the reloaded application is logged out.
C4_LogoutBeforeError ==
  /\ [][Handles401 =>
          /\ token' = None /\ expiry' = None
          /\ timers' = timers + 1
          /\ outcome'.state = "rejected" /\ outcome'.reason.status = Some(401)]_vars
  /\ (SettledOn({401}) /\ timers > 0) ~> LoggedOut

\* C4 witness: a user was restored from the cache, a component's call that
\* sent the stored token got a 401, and the redirect is pending
C4_Witness ==
  /\ SettledOn({401})
  /\ caller = "component"
  /\ IsSome(authorization)
  /\ IsSome(user)
  /\ timers = 1
  /\ token = None

\* C5: a 401 handled after an earlier 401 (its redirect timer still pending,
\* no login in between) again ends in the 401 Typed API Error and nothing
\* else, and leaves the token store as the first left it: no token, no expiry.
C5_Idempotent401 ==
  [][(Handles401 /\ timers >= 1) =>
       /\ token' = token /\ expiry' = expiry
       /\ token' = None /\ expiry' = None
       /\ outcome'.state = "rejected"
       /\ outcome'.reason.name = "VoizmaticApiError"
       /\ outcome'.reason.status = Some(401)]_vars

\* C5 witness: the second 401 in a row has been handled
C5_Witness ==
  SettledOn({401}) /\ timers = 2 /\ token = None /\ expiry = None

\* statuses whose message parseApiError replaces unconditionally
FixedMessageStatuses == {401, 403, 404, 429, 500, 502, 503, 504}

\* C6 as stated: for any non-2xx status other than 401 whose JSON error body
\* has a string detail, the message is that string verbatim.
C6_DetailVerbatim ==
  (SettledOn(NonOkNon401) /\ IsString(DecodedDetail)) =>
    /\ outcome.state = "rejected"
    /\ outcome.reason.message = Get(DecodedDetail).text

\* C6 amended: the string detail is the message verbatim when the status is
\* none of 401, 403, 404, 422, 429, 500, 502, 503, 504, except that an empty
\* detail on status 400 gives the bad-request text.
C6_DetailVerbatimUnlessFixed ==
  (SettledOn(NonOkNon401 \ (FixedMessageStatuses \cup {422})) /\ IsString(DecodedDetail)) =>
    /\ outcome.state = "rejected"
    /\ outcome.reason.status = Some(Get(response).status)
    /\ outcome.reason.validationErrors = None
    /\ outcome.reason.message =
         IF Get(response).status = 400 /\ Get(DecodedDetail).text = ""
         THEN "Bad request. Please check your input."
         ELSE Get(DecodedDetail).text

\* C6 witness: a 409 and a 400 whose body carries a string detail
C6_Witness ==
  /\ SettledOn({400, 409})
  /\ IsString(DecodedDetail)
  /\ outcome.reason.message = "Custom detail"

\* every element of the array is an object with an array loc
AllWellFormed(items) == \A i \in 1..Len(items) : ~EntryThrows(items[i])

\* the location of a well-formed entry
Loc(entry) == Get(Prop(entry, "loc")).items

\* "<field>: <msg>" as the claim renders an entry: the location without its
\* first segment joined by ".", or "field" when nothing remains
Rendered(entry) ==
  LET field == JoinWith([i \in 1..(Len(Loc(entry)) - 1) |-> SegText(Loc(entry)[i + 1])], ".")
  IN (IF field = "" THEN "field" ELSE field) \o ": " \o MsgText(entry)

\* the "; "-join of the rendered entries
RenderedAll(items) == JoinWith([i \in 1..Len(items) |-> Rendered(items[i])], "; ")

PhoneEntry == JEntry(<<JString("body"), JString("phone")>>, "required", "missing")

\* C7 as stated: for any non-2xx status other than 401 whose JSON body has an
\* array detail (of validation entries), validationErrors is that array and
\* the message is the "; "-join of "<field>: <msg>".
C7_ValidationErrors ==
  (SettledOn(NonOkNon401) /\ IsArray(DecodedDetail) /\ AllWellFormed(Get(DecodedDetail).items)) =>
    /\ outcome.state = "rejected"
    /\ outcome.reason.validationErrors = Some(Get(DecodedDetail).items)
    /\ outcome.reason.message = RenderedAll(Get(DecodedDetail).items)

\* C7 amended: for an array detail of entries that each carry a location
\* array, validationErrors is that array on every non-2xx status other than
\* 401; the message is the "; "-join when the status is none of 403, 404,
\* 429, 500, 502, 503, 504 (an empty array on 400 gives the bad-request
\* text), and the fixed text of the status otherwise.  One entry with loc
\* ["body","phone"] on a 422 gives one FieldError and "phone: required".
C7_ValidationErrorsUnlessFixed ==
  (SettledOn(NonOkNon401) /\ IsArray(DecodedDetail) /\ AllWellFormed(Get(DecodedDetail).items)) =>
    LET items == Get(DecodedDetail).items
        status == Get(response).status
    IN /\ outcome.state = "rejected"
       /\ outcome.reason.status = Some(status)
       /\ outcome.reason.validationErrors = Some(items)
       /\ status \notin FixedMessageStatuses =>
            outcome.reason.message =
              IF status = 400 /\ items = <<>>
              THEN "Bad request. Please check your input."
              ELSE RenderedAll(items)
       /\ status \in FixedMessageStatuses =>
            outcome.reason.message = StatusMessage(status, "", None)
       /\ (status = 422 /\ items = <<PhoneEntry>>) =>
            /\ Len(Get(outcome.reason.validationErrors)) = 1
            /\ Loc(Get(outcome.reason.validationErrors)[1]) = <<JString("body"), JString("phone")>>
            /\ outcome.reason.message = "phone: required"

\* C7 witness: a 422 whose detail holds two entries
C7_Witness ==
  /\ SettledOn({422})
  /\ IsArray(DecodedDetail)
  /\ Get(DecodedDetail).items = <<PhoneEntry, JEntry(<<JString("body")>>, "invalid", "type_error")>>
  /\ outcome.reason.message = "phone: required; field: invalid"

\* the body gave the client no usable detail: none was read, it was no JSON
\* text, or its detail is neither an array nor a string
NoUsableDetail == ~IsArray(DecodedDetail) /\ ~IsString(DecodedDetail)

\* the message the claim assigns to a status
TableMessage(status) ==
  CASE status = 400 -> "Bad request. Please check your input."
    [] status = 403 -> "Access forbidden. You do not have permission to perform this action."
    [] status = 404 -> "Resource not found."
    [] status = 422 -> "Validation failed. Please check your input."
    [] status = 429 -> "Too many requests. Please try again later."
    [] status = 500 -> "Internal server error. Please try again later."
    [] status = 502 -> "Bad gateway. The server is temporarily unavailable."
    [] status = 503 -> "Service unavailable. Please try again later."
    [] status = 504 -> "Gateway timeout. The request took too long."
    [] OTHER -> "Request failed with status " \o ToString(status)

\* C8: with no usable detail the message is the fixed text of the status for
\* 400, 403, 404, 422, 429, 500, 502, 503, 504, and "Request failed with
\* status <code>" for every other status.
C8_FallbackTable ==
  (SettledOn(NonOkNon401) /\ NoUsableDetail) =>
    /\ outcome.state = "rejected"
    /\ outcome.reason.message = TableMessage(Get(response).status)

\* the error body was read under a JSON content type and could not be parsed
UnparsableErrorBody ==
  /\ SettledOn(NonOkNon401)
  /\ IncludesApplicationJson(Get(response).contentType)
  /\ IsSome(content)
  /\ Get(content).kind \in {"empty", "text"}

C10_SuccessNeverFails ==
  (SettledOn(Ok) /\ variant = "apiCall") =>
    /\ outcome.state = "fulfilled"
    /\ IF IncludesApplicationJson(Get(response).contentType)
       THEN IsSome(Decoded) /\ outcome.value = Get(Decoded)
       ELSE outcome.value = EmptyObject /\ ~bodyUsed

\* C10 amended: on a 2xx response without a JSON content type apiCall returns
\* {} without reading the body; with a JSON content type it returns the
\* deserialized body when the body is a JSON text, and fails with a Typed API
\* Error without status and without validationErrors when the body is absent
\* or cannot be read as JSON.
C10_SuccessUnlessUnparsable ==
  (SettledOn(Ok) /\ variant = "apiCall") =>
    IF ~IncludesApplicationJson(Get(response).contentType)
    THEN outcome = Fulfilled(EmptyObject) /\ ~bodyUsed /\ content = None
    ELSE /\ bodyUsed
         /\ IsSome(Decoded) => outcome = Fulfilled(Get(Decoded))
         /\ ~IsSome(Decoded) =>
              /\ outcome.state = "rejected"
              /\ outcome.reason.name = "VoizmaticApiError"
              /\ outcome.reason.status = None
              /\ outcome.reason.validationErrors = None

\* C10 witness: a 204 without content type gave {}, the body unread
C10_Witness ==
  /\ SettledOn({204})
  /\ variant = "apiCall"
  /\ Get(response).contentType = None
  /\ outcome = Fulfilled(EmptyObject)
  /\ ~bodyUsed

\* what apiCall makes of a response and of what a body read finds, None when
\* the wrapper reads no body
ApiCallOutcome(resp, read) ==
  IF resp.status = 401 THEN Rejected(CatchBlock("apiCall", Unauthorized(resp)))
  ELSE IF ~ResponseOk(resp) THEN ErrorOutcome("apiCall", resp, read)
  ELSE SuccessOutcome("apiCall", read)

\* the body read, if there was one, did not fail in transit
BodyArrived == IsSome(content) => Get(content).kind # "failed"

\* C11: for the same response (status, content type, body) apiUpload,
\* apiDownload and apiDownloadBlob end as apiCall does: on a non-2xx response
\* with the identical Typed API Error (status, statusText, message,
\* validationErrors), and on every 2xx response, with or without a JSON body,
\* with a successful return.
C11_SameContract ==
  (pc = "settled" /\ IsSome(response) /\ variant # "apiCall" /\ BodyArrived) =>
    IF ResponseOk(Get(response))
    THEN outcome.state = "fulfilled"
    ELSE outcome = ApiCallOutcome(Get(response), content)


(***************************************************************************)
(* utils/errorHandling: the category predicates and what is derived from   *)
(* them                                                                    *)
(***************************************************************************)
\* the lower-case letter of each upper-case letter
LowerCase ==
  [A |-> "a", B |-> "b", C |-> "c", D |-> "d", E |-> "e", F |-> "f", G |-> "g",
   H |-> "h", I |-> "i", J |-> "j", K |-> "k", L |-> "l", M |-> "m", N |-> "n",
   O |-> "o", P |-> "p", Q |-> "q", R |-> "r", S |-> "s", T |-> "t", U |-> "u",
   V |-> "v", W |-> "w", X |-> "x", Y |-> "y", Z |-> "z"]

RECURSIVE ToLowerCase(_)
\* String.prototype.toLowerCase
ToLowerCase(s) ==
  IF Len(s) = 0 THEN ""
  ELSE LET ch == SubSeq(s, 1, 1)
       IN (IF ch \in DOMAIN LowerCase THEN LowerCase[ch] ELSE ch)
          \o ToLowerCase(SubSeq(s, 2, Len(s)))

\* String.prototype.includes
Includes(s, w) ==
  \E i \in 1..(Len(s) - Len(w) + 1) : SubSeq(s, i, i + Len(w) - 1) = w

\* isNetworkError
isNetworkError(error) ==
  IF InstanceOfVoizmaticApiError(error)
  THEN Includes(ToLowerCase(error.message), "network")
  ELSE IF InstanceOfError(error)
    THEN \/ Includes(ToLowerCase(error.message), "network")
         \/ Includes(ToLowerCase(error.message), "fetch")
         \/ error.name = "TypeError"
  ELSE FALSE

\* isAuthError
isAuthError(error) ==
  InstanceOfVoizmaticApiError(error) /\ error.status = Some(401)

\* isValidationError
isValidationError(error) ==
  /\ InstanceOfVoizmaticApiError(error)
  /\ error.status = Some(422)
  /\ IsSome(error.validationErrors)
  /\ Len(Get(error.validationErrors)) > 0

\* isPermissionError
isPermissionError(error) ==
  InstanceOfVoizmaticApiError(error) /\ error.status = Some(403)

\* isNotFoundError
isNotFoundError(error) ==
  InstanceOfVoizmaticApiError(error) /\ error.status = Some(404)

\* a server test that starts at 501
isServerErrorAbove500(error) ==
  InstanceOfVoizmaticApiError(error) /\ IsSome(error.status) /\ Get(error.status) > 500

\* isServerError
isServerError(error) ==
  InstanceOfVoizmaticApiError(error) /\ IsSome(error.status) /\ Get(error.status) >= 500

\* a severity that asks isNetworkError first
getErrorSeverityNetworkFirst(error) ==
  IF isNetworkError(error) THEN "error"
  ELSE IF isValidationError(error) THEN "warning"
  ELSE IF isNotFoundError(error) THEN "info"
  ELSE IF isAuthError(error) \/ isPermissionError(error) THEN "warning"
  ELSE IF isServerError(error) THEN "critical"
  ELSE "error"

\* getErrorSeverity
getErrorSeverity(error) ==
  IF isValidationError(error) THEN "warning"
  ELSE IF isNotFoundError(error) THEN "info"
  ELSE IF isAuthError(error) \/ isPermissionError(error) THEN "warning"
  ELSE IF isServerError(error) THEN "critical"
  ELSE IF isNetworkError(error) THEN "error"
  ELSE "error"

\* a getValidationErrorMessage whose field names keep the first segment
getValidationErrorMessageKeepsFirst(error) ==
  IF ~IsSome(error.validationErrors) \/ Len(Get(error.validationErrors)) = 0
  THEN error.message
  ELSE LET errs == Get(error.validationErrors)
       IN JoinWith([i \in 1..Len(errs) |->
                      FieldNameKeepsFirst(errs[i]) \o ": " \o MsgText(errs[i])], "\n")

\* VoizmaticApiError.getValidationErrorMessage
getValidationErrorMessage(error) ==
  IF ~IsSome(error.validationErrors) \/ Len(Get(error.validationErrors)) = 0
  THEN error.message
  ELSE LET errs == Get(error.validationErrors)
       IN JoinWith([i \in 1..Len(errs) |->
                      FieldName(errs[i]) \o ": " \o MsgText(errs[i])], "\n")

\* getErrorMessage: a thrown string is kept as the message of NonErrorValue
getErrorMessage(error) ==
  IF InstanceOfVoizmaticApiError(error)
  THEN IF IsSome(error.validationErrors) /\ Len(Get(error.validationErrors)) > 0
       THEN getValidationErrorMessage(error)
       ELSE error.message
  ELSE error.message

CheckConnectionAction == "Please check your internet connection and try again."
LogInAgainAction == "Please log in again to continue."
PermissionAction ==
  "You do not have permission to perform this action. Contact your administrator if you believe this is a mistake."
ReviewInputAction == "Please review your input and try again."
ServerAction ==
  "The server is experiencing issues. Please try again later or contact support if the problem persists."
NotFoundAction == "The requested resource was not found."
TryAgainAction == "Please try again or contact support if the problem persists."

\* getErrorActionMessage
getErrorActionMessage(error) ==
  IF isNetworkError(error) THEN CheckConnectionAction
  ELSE IF isAuthError(error) THEN LogInAgainAction
  ELSE IF isPermissionError(error) THEN PermissionAction
  ELSE IF isValidationError(error) THEN ReviewInputAction
  ELSE IF isServerError(error) THEN ServerAction
  ELSE IF isNotFoundError(error) THEN NotFoundAction
  ELSE TryAgainAction

\* every text parseApiError and the 401 path can give an HTTP error when the
\* body supplies none
HttpFallbackMessages ==
  {SessionExpiredMessage, SessionExpiredOrInvalidMessage, BadRequestMessage,
   ForbiddenMessage, NotFoundMessage, ValidationFailedMessage, TooManyRequestsMessage,
   InternalServerErrorMessage, BadGatewayMessage, ServiceUnavailableMessage,
   GatewayTimeoutMessage}
  \cup { DefaultMessage(st) : st \in Statuses }

\* fetch rejected with a transport failure: the call never reached the server
TransportFailure ==
  pc = "settled" /\ failure = Some(FetchTypeError)

\* C12: when fetch rejects with a transport failure the call fails with a
\* Typed API Error without status carrying the fixed network message of the
\* wrapper, which is none of the HTTP fallback messages; isNetworkError holds
\* of it, isServerError does not, and its severity is "error".  A Typed API
\* Error with status 500 satisfies isServerError and not isNetworkError, and
\* its severity is "critical".
C12_NetworkVersusServer ==
  /\ TransportFailure =>
       /\ outcome.state = "rejected"
       /\ InstanceOfVoizmaticApiError(outcome.reason)
       /\ outcome.reason.status = None
       /\ outcome.reason.message = NetworkMessage(variant)
       /\ outcome.reason.message \notin HttpFallbackMessages
       /\ isNetworkError(outcome.reason)
       /\ ~isServerError(outcome.reason)
       /\ getErrorSeverity(outcome.reason) = "error"
  /\ (pc = "settled" /\ outcome.state = "rejected" /\ outcome.reason.status = Some(500)) =>
       /\ isServerError(outcome.reason)
       /\ ~isNetworkError(outcome.reason)
       /\ getErrorSeverity(outcome.reason) = "critical"

\* C12 witness: an upload's fetch failed in transport, and the error is a
\* network error
C12_Witness ==
  /\ TransportFailure
  /\ variant = "apiUpload"
  /\ outcome.reason.message = "Network error during upload. Please check your internet connection."
  /\ isNetworkError(outcome.reason)


\* C13: no call for which the server returned an HTTP response, of any status
\* and body shape, ends in an error that isNetworkError classifies as a
\* network error.
C13_ResponseNeverNetwork ==
  (pc = "settled" /\ IsSome(response) /\ BodyArrived /\ outcome.state = "rejected") =>
    ~isNetworkError(outcome.reason)

\* the exception the try block of the settled call raised before any Typed
\* API Error was built: what fetch rejected with, or what the body read of a
\* 2xx response threw; None when there was none
RaisedException ==
  IF IsSome(failure) THEN failure
  ELSE IF /\ IsSome(response) /\ ResponseOk(Get(response)) /\ IsSome(content)
          /\ variant \in {"apiCall", "apiUpload"}
          /\ ResponseJson(Get(content)).thrown
    THEN Some(ResponseJson(Get(content)).exc)
  ELSE None

\* the settled call raised an exception that is an Error object but no
\* transport failure (TypeError)
UnexpectedException ==
  /\ pc = "settled"
  /\ IsSome(RaisedException)
  /\ InstanceOfError(Get(RaisedException))
  /\ ~InstanceOfTypeError(Get(RaisedException))

\* C14: an unexpected exception raised during a call is wrapped as a Typed
\* API Error whose message is the exception's message and which retains the
\* exception as its cause, reachable from the error the caller receives.
C14_CauseRetained ==
  UnexpectedException =>
    /\ outcome.state = "rejected"
    /\ InstanceOfVoizmaticApiError(outcome.reason)
    /\ outcome.reason.message = Get(RaisedException).message
    /\ "originalError" \in DOMAIN outcome.reason
    /\ outcome.reason.originalError = RaisedException


\* a token and an expiry are stored and the expiry is later than now
StoredAndUnexpired == IsSome(token) /\ IsSome(expiry) /\ Get(expiry) > now

\* the request in flight is a protected call
ProtectedCallInFlight == pc = "fetching" /\ requiresAuth

LoginSucceeds ==
  /\ pc # "settled" /\ pc' = "settled"
  /\ caller' = "login"
  /\ outcome'.state = "fulfilled"
  /\ DateOf(Prop(outcome'.value, "expires_at")) > now

\* the step in which the clock reaches the expiry of a valid token
ClockPassesExpiry ==
  /\ isTokenValid(token, expiry, now)
  /\ now' > now
  /\ now' >= Get(expiry)

\* C16: the step in which a login succeeds with an expiry in the future
\* stores the payload's token and expiry, and isTokenValid is true; the step
\* in which the clock passes the expiry leaves the token store as it was, and
\* isTokenValid is false.
C16_LoginThenExpiry ==
  /\ [][LoginSucceeds =>
          /\ token' = Some(Get(Prop(outcome'.value, "access_token")).text)
          /\ expiry' = Some(DateOf(Prop(outcome'.value, "expires_at")))
          /\ isTokenValid(token', expiry', now')]_vars
  /\ [][ClockPassesExpiry =>
          /\ token' = token /\ expiry' = expiry
          /\ IsSome(token') /\ IsSome(expiry')
          /\ ~isTokenValid(token', expiry', now')]_vars

\* C16 witness: the token a login stored is still stored, with its expiry,
\* and the clock has passed the expiry
C16_Witness ==
  /\ token = Some("token-2")
  /\ expiry = Some(2)
  /\ now >= 2
  /\ ~isTokenValid(token, expiry, now)


\* the step in which the call of the given callers settles
SettlesFor(callers) ==
  pc # "settled" /\ pc' = "settled" /\ caller' \in callers

\* the step stores a token or an expiry that was not stored before
StoreWritten == IsSome(token') /\ (token' # token \/ expiry' # expiry)

\* the step removes the stored token
StoreCleared == IsSome(token) /\ ~IsSome(token')

\* C17: the token store is written only in the step in which a login or
\* register call succeeds, and cleared only by logout or by the handling of a
\* 401 response; a failure that is not a 401 never clears it.
C17_StoreMutatedOnlyByAuth ==
  [][/\ StoreWritten =>
          SettlesFor({"login", "register"}) /\ outcome'.state = "fulfilled"
     /\ StoreCleared =>
          \/ SettlesFor({"logout"})
          \/ /\ pc # "settled" /\ pc' = "settled"
             /\ IsSome(response') /\ Get(response').status = 401]_vars


\* a call is in flight: its request has been sent and its promise is pending
InFlight == pc \in {"fetching", "errorBody", "successBody"}

\* C18: the request of a call carries Authorization: Bearer <stored token>
\* exactly when the call has requiresAuth = true and a token is stored; the
\* calls of login and register have requiresAuth = false and carry no
\* Authorization header, whatever the store holds.
C18_BearerIffRequiresAuth ==
  InFlight =>
    /\ authorization = IF requiresAuth /\ IsSome(token)
                       THEN Some("Bearer " \o Get(token)) ELSE None
    /\ caller \in {"login", "register"} => ~requiresAuth /\ authorization = None
    /\ caller \in {"checkExistingSession", "signInProfile", "refreshProfile", "logout"} =>
         requiresAuth

\* C18 witness: a login is in flight while a token is stored, and its
\* request carries no Authorization header
C18_Witness ==
  /\ pc = "fetching"
  /\ caller = "login"
  /\ IsSome(token)
  /\ authorization = None


\* the page reloads
Reloads == timers > 0 /\ timers' = 0

\* C19: a call in flight or settled has called fetch exactly once; each step
\* of a call in flight moves it forward, from the fetch to at most one body
\* read and from there to its settlement, never back to a fetch; a settled
\* call has a payload or a Typed API Error; and when the network settles what
\* the call awaits, the call settles (or the page is reloaded by a redirect).
C19_FireOnce ==
  /\ [](InFlight \/ pc = "settled" => requests = 1)
  /\ [](pc = "settled" =>
          \/ outcome.state = "fulfilled"
          \/ outcome.state = "rejected" /\ InstanceOfVoizmaticApiError(outcome.reason))
  /\ [][(InFlight /\ pc' # pc /\ ~Reloads) =>
          /\ requests' = requests
          /\ pc = "fetching" => pc' \in {"errorBody", "successBody", "settled"}
          /\ pc \in {"errorBody", "successBody"} => pc' = "settled"]_vars
  /\ InFlight ~> (pc \in {"settled", "idle"})

\* C19 witness: a call that a 500 response with an unreadable JSON body ended
\* has settled with its error after one request
C19_Witness ==
  /\ SettledOn({500})
  /\ IsSome(content) /\ Get(content).kind = "text"
  /\ outcome.state = "rejected"
  /\ requests = 1


\* the severity the claim assigns to a Typed API Error, read off its status
\* and field errors
SeverityOf(error) ==
  LET status == error.status
      fieldErrors == IF IsSome(error.validationErrors)
                     THEN Len(Get(error.validationErrors)) ELSE 0
  IN CASE status = Some(422) /\ fieldErrors > 0 -> "warning"
       [] status \in {Some(401), Some(403)} -> "warning"
       [] status = Some(404) -> "info"
       [] IsSome(status) /\ Get(status) >= 500 -> "critical"
       [] OTHER -> "error"

\* C20: getErrorSeverity gives "warning" for a 422 with field errors, for 401
\* and for 403, "info" for 404, "critical" for every status >= 500, and
\* "error" for network errors and for every other error, whatever the
\* message of the error says; an exception that is no Typed API Error gets
\* "error".
C20_Severity ==
  /\ (pc = "settled" /\ outcome.state = "rejected") =>
       getErrorSeverity(outcome.reason) = SeverityOf(outcome.reason)
  /\ IsSome(failure) => getErrorSeverity(Get(failure)) = "error"

\* C20 witness: a 501 error whose message, taken from the body, mentions the
\* network is a server error and critical
C20_Witness ==
  /\ SettledOn({501})
  /\ outcome.state = "rejected"
  /\ outcome.reason.status = Some(501)
  /\ isNetworkError(outcome.reason)
  /\ getErrorSeverity(outcome.reason) = "critical"


\* the error of the settled call came from a failure in transport: fetch
\* rejected with a TypeError, or the body read of a 2xx response broke off
\* (a broken read of an error body is swallowed and leaves the HTTP error)
FailedInTransport ==
  \/ failure = Some(FetchTypeError)
  \/ /\ IsSome(response) /\ ResponseOk(Get(response))
     /\ IsSome(content) /\ Get(content).kind = "failed"

\* C21: on the Typed API Error of a settled call isAuthError holds iff the
\* status is 401, isPermissionError iff it is 403, isNotFoundError iff it is
\* 404, isServerError iff it is defined and >= 500, isValidationError iff it
\* is 422 with a non-empty validationErrors, and isNetworkError iff the call
\* failed in transport; on a thrown value that is no Typed API Error all of
\* them but isNetworkError are false.
C21_ExactCategories ==
  /\ (pc = "settled" /\ outcome.state = "rejected") =>
       LET error == outcome.reason
       IN /\ isAuthError(error) <=> error.status = Some(401)
          /\ isPermissionError(error) <=> error.status = Some(403)
          /\ isNotFoundError(error) <=> error.status = Some(404)
          /\ isServerError(error) <=> (IsSome(error.status) /\ Get(error.status) >= 500)
          /\ isValidationError(error) <=>
               /\ error.status = Some(422)
               /\ IsSome(error.validationErrors)
               /\ Get(error.validationErrors) # <<>>
          /\ isNetworkError(error) <=> FailedInTransport
  /\ IsSome(failure) =>
       /\ ~isAuthError(Get(failure))
       /\ ~isPermissionError(Get(failure))
       /\ ~isNotFoundError(Get(failure))
       /\ ~isServerError(Get(failure))
       /\ ~isValidationError(Get(failure))


\* the action message the claim assigns to the error of the settled call, by
\* its category
ActionOfCategory(error) ==
  CASE FailedInTransport -> "Please check your internet connection and try again."
    [] error.status = Some(401) -> "Please log in again to continue."
    [] error.status = Some(422) /\ IsSome(error.validationErrors)
         /\ Get(error.validationErrors) # <<>> -> "Please review your input and try again."
    [] error.status = Some(403) -> PermissionAction
    [] error.status = Some(404) -> "The requested resource was not found."
    [] IsSome(error.status) /\ Get(error.status) >= 500 -> ServerAction
    [] OTHER -> "Please try again or contact support if the problem persists."

\* C22: getErrorActionMessage gives every error the message of its category:
\* check-your-connection for a network error, log-in-again for 401,
\* review-your-input for a 422 with field errors whatever the fields and
\* messages are, the permission, not-found and server messages for 403, 404
\* and >= 500, and the generic try-again message for everything else.
C22_ActionByCategory ==
  (pc = "settled" /\ outcome.state = "rejected") =>
    getErrorActionMessage(outcome.reason) = ActionOfCategory(outcome.reason)


RECURSIVE ReplaceNewlines(_)
\* s.replace(/\n/g, "; ")
ReplaceNewlines(s) ==
  IF Len(s) = 0 THEN ""
  ELSE LET ch == SubSeq(s, 1, 1)
       IN (IF ch = "\n" THEN "; " ELSE ch) \o ReplaceNewlines(SubSeq(s, 2, Len(s)))

\* the settled call was rejected with a validation error: a 422 carrying
\* field errors
ValidationErrorRaised ==
  pc = "settled" /\ outcome.state = "rejected" /\ isValidationError(outcome.reason)

\* no field error of the list has a line break in its rendered entry
NoLineBreaks(errs) ==
  \A i \in 1..Len(errs) : ~Includes(FormatEntry(errs[i]), "\n")

\* C23 as stated: for every validation error, replacing "\n" by "; " in
\* getErrorMessage(error) gives error.message.
C23_RoundTrip ==
  ValidationErrorRaised =>
    ReplaceNewlines(getErrorMessage(outcome.reason)) = outcome.reason.message

\* C23: for a validation error whose entries hold no line break, the short
\* message is the "; "-join and getErrorMessage(error) the newline-join of the
\* same "<field>: <msg>" entries in the same order: replacing "\n" by "; " in
\* getErrorMessage(error) gives error.message.
C23_RoundTripNoLineBreaks ==
  (ValidationErrorRaised /\ NoLineBreaks(Get(outcome.reason.validationErrors))) =>
    ReplaceNewlines(getErrorMessage(outcome.reason)) = outcome.reason.message

\* a validation error with two field errors was formatted both ways
C23_Witness ==
  /\ ValidationErrorRaised
  /\ Len(Get(outcome.reason.validationErrors)) = 2
  /\ outcome.reason.message = "phone: required; field: invalid"
  /\ getErrorMessage(outcome.reason) = "phone: required\nfield: invalid"


\* AuthContext.logout has completed
LogoutCompleted == pc = "settled" /\ caller = "logout"

\* C24: whatever the logout call gave (success, 401, another HTTP error, a
\* network failure), after AuthContext.logout completes the user is null, the
\* token and its expiry are removed and the cached currentUser is removed.
C24_LogoutEndsLoggedOut ==
  LogoutCompleted =>
    /\ user = None
    /\ token = None /\ expiry = None
    /\ currentUser = None

\* a logout whose call failed in transport has completed
C24_Witness ==
  /\ LogoutCompleted
  /\ outcome.state = "rejected"
  /\ failure = Some(FetchTypeError)
  /\ user = None /\ token = None


\* C26: in every reachable state the token key and the expiry key of the
\* token store are both present or both absent, whatever sequence of login,
\* register, logout, 401 handling and page loads led there.
C26_TokenAndExpiryTogether ==
  IsSome(token) <=> IsSome(expiry)

\* a login has just written both keys of the store
C26_Witness ==
  /\ SignedIn /\ caller = "login"
  /\ token = Some("token-2") /\ IsSome(expiry)


\* C27 as stated: whenever the AuthContext user is non-null, a session token
\* is stored.
C27_UserImpliesToken ==
  IsSome(user) => IsSome(getToken)

\* C27: whenever the AuthContext user is non-null, a session token is stored
\* or the redirect scheduled by the handling of a 401 response is pending.
C27_UserImpliesTokenOrRedirect ==
  IsSome(user) => (IsSome(getToken) \/ timers > 0)

\* a protected call of a signed-in user was answered with 401: the token is
\* cleared and the user remains until the pending redirect reloads the page
C27_Witness ==
  /\ SettledOn({401}) /\ caller = "component"
  /\ IsSome(user) /\ ~IsSome(getToken) /\ timers > 0


\* AuthContext.login or AuthContext.register has returned false: the
\* authentication call was rejected or gave nothing to store, or the profile
\* fetch that follows it was rejected or gave no profile
SignInFailed ==
  /\ pc = "settled"
  /\ \/ caller \in {"login", "register"} /\ ~SignedIn
     \/ /\ caller = "signInProfile"
        /\ ~(outcome.state = "fulfilled" /\ ~profileToUser(outcome.value).thrown)

\* C28: whenever AuthContext.login or AuthContext.register returns false, the
\* user is null and the token store holds no token written by a sign-in
\* attempt: it is empty or holds the token it held at page load.
C28_FailedSignInLeavesNoSession ==
  SignInFailed =>
    /\ user = None
    /\ token \in {None, Some("token-1")}


\* the categories the predicates of errorHandling give an error
CategoriesOf(error) ==
  { c \in {"network", "auth", "validation", "permission", "notFound", "server"} :
      CASE c = "network" -> isNetworkError(error)
        [] c = "auth" -> isAuthError(error)
        [] c = "validation" -> isValidationError(error)
        [] c = "permission" -> isPermissionError(error)
        [] c = "notFound" -> isNotFoundError(error)
        [] OTHER -> isServerError(error) }

\* C29: for every error a transport wrapper rejects with, at most one of
\* isNetworkError, isAuthError, isValidationError, isPermissionError,
\* isNotFoundError and isServerError is true.
C29_CategoriesExclusive ==
  (pc = "settled" /\ outcome.state = "rejected") =>
    Cardinality(CategoriesOf(outcome.reason)) <= 1


\* a step of a transport call made by a component, which does nothing to the
\* token store itself when the call settles (and not the answer to another
\* call left in flight)
ComponentCallStep ==
  /\ caller = "component" /\ caller' = "component"
  /\ pc' \in {"fetching", "errorBody", "successBody", "settled"}
  /\ pc # "settled"
  /\ stale' = stale

\* C30: a call of apiCall, apiUpload, apiDownload or apiDownloadBlob leaves the
\* stored token and expiry as they were, on success, on a non-401 HTTP error,
\* on a network failure and on an unexpected exception; only a 401 response
\* changes them.
C30_StoreUnchangedUnless401 ==
  [][(ComponentCallStep /\ ~(IsSome(response') /\ Get(response').status = 401))
       => (token' = token /\ expiry' = expiry)]_vars

\* a component's call failed in transport with a token stored, and the token
\* is still stored
C30_Witness ==
  /\ pc = "settled" /\ caller = "component"
  /\ failure = Some(FetchTypeError)
  /\ outcome.state = "rejected"
  /\ token = Some("token-1") /\ IsSome(expiry)


\* the 401 of the call left in flight is handled in this step
StaleUnauthorizedHandled ==
  IsSome(stale) /\ stale' = None /\ timers' = timers + 1

\* the store holds a token that was written after the call left in flight was
\* sent: the call did not carry it
TokenNewerThanStale ==
  IsSome(token) /\ Get(stale) # Some("Bearer " \o Get(token))

\* C25: a 401 response to a request sent before a later login never clears
\* the token that login stored: when the 401 of the stale call is handled
\* after the login's setToken, the new token and its expiry are still stored.
C25_StaleUnauthorizedKeepsNewToken ==
  [][(StaleUnauthorizedHandled /\ TokenNewerThanStale)
       => (token' = token /\ expiry' = expiry)]_vars


====
